---------------------------- MODULE Spec2Model ----------------------------
(* A model of print_help (src/src/print_help.cpp): format the shell      *)
(* command for a help topic into a fixed buffer, hand it to system(),    *)
(* and on launch failure write a fixed diagnostic to file descriptor 2   *)
(* through write_loop.                                                   *)
EXTENDS Integers, Sequences, FiniteSets, TLC

(***************************************************************************)
(* Program constants                                                       *)
(***************************************************************************)

\* #define CMD_LEN 1024
CMD_LEN == 1024

\* The largest value of the C type int, the type of `printed`.
INT_MAX == 2147483647

\* The terminating byte of a C string.
NUL == "NUL"

\* #define HELP_ERR "Could not show help message\n"
HELP_ERR ==
    << "C", "o", "u", "l", "d", " ", "n", "o", "t", " ", "s", "h", "o", "w",
       " ", "h", "e", "l", "p", " ", "m", "e", "s", "s", "a", "g", "e", "\n" >>

\* The string literal HELP_ERR as it lies in memory: its bytes and a NUL.
HelpErrMem == HELP_ERR \o << NUL >>

\* The format "fish -c '__fish_print_help %s'": the text before the %s ...
CmdPrefix ==
    << "f", "i", "s", "h", " ", "-", "c", " ", "'", "_", "_", "f", "i", "s",
       "h", "_", "p", "r", "i", "n", "t", "_", "h", "e", "l", "p", " " >>

\* ... and the text after it.
CmdSuffix == << "'" >>

TemplateLen == Len(CmdPrefix) + Len(CmdSuffix)

(***************************************************************************)
(* Bounds of the model                                                     *)
(***************************************************************************)

\* Topics are an explicit head of at most MaxHead bytes followed by a run
\* of `pad` filler bytes; pads lie within PadSlack of the two lengths at
\* which snprintf's result changes its meaning.
MaxHead == 2
PadSlack == 2
\* How many times one write_loop may see write() interrupted (EINTR/EAGAIN).
MaxIntr == 1

(***************************************************************************)
(* Inputs                                                                  *)
(***************************************************************************)

Alphabet == { "a", "'" }
FillChar == "x"

Min(a, b) == IF a < b THEN a ELSE b

\* The longest topic whose command fits cmd[] together with its NUL.
FitPad == CMD_LEN - 1 - TemplateLen
\* The longest topic whose command length is still an int.
HugePad == INT_MAX - TemplateLen

Near(b) == { p \in (b - PadSlack)..(b + PadSlack) : p >= 0 }

Heads == UNION { [1..n -> Alphabet] : n \in 0..MaxHead }
Pads == { 0 } \cup Near(FitPad) \cup Near(HugePad)

Topics == [ head : Heads, fill : { FillChar }, pad : Pads ]

\* strlen(c)
TopicLen(t) == Len(t.head) + t.pad

\* A variant that sanitises quotes instead of copying the byte.
TopicAt_sanitised(t, i) ==
    LET ch == IF i <= Len(t.head) THEN t.head[i] ELSE t.fill
    IN  IF ch = "'" THEN "_" ELSE ch

\* c[i - 1]
TopicAt(t, i) == IF i <= Len(t.head) THEN t.head[i] ELSE t.fill

\* The wait statuses system() returns for a command it launched: an exit
\* code e in the high byte, or the number of the signal that killed it.
ExitCodes == { 0, 1, 127, 255 }
KillSignals == { 9 }
WaitStatuses == { e * 256 : e \in ExitCodes } \cup KillSignals

\* What system() can return.
SystemResults == { -1 } \cup WaitStatuses

(***************************************************************************)
(* snprintf(cmd, CMD_LEN, "fish -c '__fish_print_help %s'", c)             *)
(***************************************************************************)

\* The i-th byte (from 1) of the fully formatted command.
FormatChar(t, i) ==
    IF i <= Len(CmdPrefix) THEN CmdPrefix[i]
    ELSE IF i - Len(CmdPrefix) <= TopicLen(t) THEN TopicAt(t, i - Len(CmdPrefix))
    ELSE CmdSuffix[i - Len(CmdPrefix) - TopicLen(t)]

\* The first k bytes of the fully formatted command.
Formatted(t, k) == [ i \in 1..k |-> FormatChar(t, i) ]

\* The formatted length does not fit an int: snprintf fails (EOVERFLOW).
FormatOverflows(t) == TopicLen(t) > INT_MAX - TemplateLen

\* What a failed snprintf may leave in the buffer: a NUL-terminated prefix
\* of the output, of a length the C library chooses.
ErrPrefixLens == { 0, Len(CmdPrefix), CMD_LEN - 1 }

\* The value snprintf returns: the length the whole output needs, or a
\* negative value on error.
SnprintfRet(t) ==
    IF FormatOverflows(t) THEN -1 ELSE TemplateLen + TopicLen(t)

\* The contents snprintf can leave in cmd[]: at most size - 1 bytes of the
\* output and a NUL.
SnprintfBufs(t, size) ==
    IF FormatOverflows(t)
    THEN { Formatted(t, k) \o << NUL >> : k \in ErrPrefixLens }
    ELSE { Formatted(t, Min(TemplateLen + TopicLen(t), size - 1)) \o << NUL >> }

\* The C string a buffer holds: its bytes before the first NUL.
CStr(buf) ==
    LET nul == CHOOSE i \in 1..Len(buf) :
                   buf[i] = NUL /\ \A j \in 1..(i - 1) : buf[j] # NUL
    IN  SubSeq(buf, 1, nul - 1)

(***************************************************************************)
(* The branch conditions of print_help                                     *)
(***************************************************************************)

\* A variant with the inclusive comparison printed <= CMD_LEN.
WithinCapacity_inclusive(p) == p <= CMD_LEN

\* printed < CMD_LEN
WithinCapacity(p) == p < CMD_LEN

\* A variant that takes every non-zero result of system() for a failure.
LaunchFailed_nonzero(r) == r # 0

\* system(cmd) == -1
LaunchFailed(r) == r = -1

\* The descriptor the diagnostic is written to.
ErrFd == 2

\* A variant that passes sizeof(HELP_ERR), which counts the NUL.
WriteCount_sizeof == Len(HelpErrMem)

\* A variant that passes one byte less and so drops the final newline.
WriteCount_short == Len(HELP_ERR) - 1

\* std::strlen(HELP_ERR)
WriteCount == Len(CStr(HelpErrMem))

\* A variant that reports the overflow with the diagnostic.
SkipPc_diagnostic == "call_write_loop"

\* Where control goes when the if's condition is false at its first operand.
SkipPc == "done"

\* A variant that tries the command again when it could not be launched.
AfterSystemPc_retry(r) == IF r = -1 THEN "test" ELSE "done"

\* Where control goes when system() has returned r.
AfterSystemPc(r) == IF LaunchFailed(r) THEN "call_write_loop" ELSE "done"

\* A variant that writes the diagnostic again when write_loop failed.
AfterWritePc_retry(w) == IF w = -1 THEN "call_write_loop" ELSE "done"

\* Where control goes when write_loop has returned w (the value is dropped).
AfterWritePc(w) == "done"

(***************************************************************************)
(* State                                                                   *)
(***************************************************************************)

VARIABLES
    pc,         \* where print_help is
    topic,      \* the argument c
    cmd,        \* char cmd[CMD_LEN], as far as it has been written
    printed,    \* int printed
    execLog,    \* the command strings system() has been called with
    sysret,     \* the values system() has returned, in order
    writeReqs,  \* the calls of write_loop: [fd, buf, count]
    out_cum,    \* write_loop's out_cum
    wret,       \* the values write_loop has returned, in order
    fds,        \* the bytes delivered to each descriptor, fds[2] is stderr
    nwrites,    \* the write() calls that delivered bytes
    sinkN,      \* the sink takes at most sinkN bytes per write()
    sinkHard,   \* the sink may fail a write() with a hard error
    intrLeft    \* the interruptions the sink may still report

vars == << pc, topic, cmd, printed, execLog, sysret, writeReqs, out_cum,
           wret, fds, nwrites, sinkN, sinkHard, intrLeft >>

stderr == fds[2]

Init ==
    /\ pc = "start"
    /\ topic \in Topics
    /\ cmd = << >>
    /\ printed = 0
    /\ execLog = << >>
    /\ sysret = << >>
    /\ writeReqs = << >>
    /\ out_cum = 0
    /\ wret = << >>
    /\ fds = [ fd \in 1..2 |-> << >> ]
    /\ nwrites = 0
    /\ sinkN = 1
    /\ sinkHard = FALSE
    /\ intrLeft = 0

(***************************************************************************)
(* print_help, step by step                                                *)
(***************************************************************************)

\* int printed = snprintf(cmd, CMD_LEN, "...%s'", c);
Format ==
    /\ pc = "start"
    /\ printed' = SnprintfRet(topic)
    /\ cmd' \in SnprintfBufs(topic, CMD_LEN)
    /\ pc' = "test"
    /\ UNCHANGED << topic, execLog, sysret, writeReqs, out_cum, wret, fds,
                    nwrites, sinkN, sinkHard, intrLeft >>

\* if (printed < CMD_LEN && system(cmd) ...: the first operand decides
\* whether system() is called at all; the call blocks.
Test ==
    /\ pc = "test"
    /\ IF WithinCapacity(printed)
       THEN /\ execLog' = Append(execLog, CStr(cmd))
            /\ pc' = "system"
       ELSE /\ execLog' = execLog
            /\ pc' = SkipPc
    /\ UNCHANGED << topic, cmd, printed, sysret, writeReqs, out_cum, wret,
                    fds, nwrites, sinkN, sinkHard, intrLeft >>

\* system() returns: -1 when no child could be created, else the wait
\* status of the shell it ran.
SystemReturn ==
    /\ pc = "system"
    /\ \E r \in SystemResults :
          /\ sysret' = Append(sysret, r)
          /\ pc' = AfterSystemPc(r)
    /\ UNCHANGED << topic, cmd, printed, execLog, writeReqs, out_cum, wret,
                    fds, nwrites, sinkN, sinkHard, intrLeft >>

\* write_loop(2, HELP_ERR, std::strlen(HELP_ERR)) is entered; the sink
\* behind the descriptor is whatever the environment provides.
CallWriteLoop ==
    /\ pc = "call_write_loop"
    /\ writeReqs' = Append(writeReqs,
                           [ fd |-> ErrFd, buf |-> HelpErrMem, count |-> WriteCount ])
    /\ out_cum' = 0
    /\ sinkN' \in 1..Len(HELP_ERR)
    /\ sinkHard' \in BOOLEAN
    /\ intrLeft' \in 0..MaxIntr
    /\ pc' = "write_loop"
    /\ UNCHANGED << topic, cmd, printed, execLog, sysret, wret, fds, nwrites >>

\* The request write_loop is serving.
Req == writeReqs[Len(writeReqs)]

\* write_loop: one write(fd, &buff[out_cum], count - out_cum) that the sink
\* accepts in part or in whole.
WriteSome ==
    /\ pc = "write_loop"
    /\ out_cum < Req.count
    /\ LET n == Min(sinkN, Req.count - out_cum)
       IN  /\ fds' = [ fds EXCEPT ![Req.fd] =
                         @ \o SubSeq(Req.buf, out_cum + 1, out_cum + n) ]
           /\ out_cum' = out_cum + n
    /\ nwrites' = nwrites + 1
    /\ UNCHANGED << pc, topic, cmd, printed, execLog, sysret, writeReqs, wret,
                    sinkN, sinkHard, intrLeft >>

\* write_loop: write() fails with EINTR or EAGAIN; the loop tries again.
WriteInterrupted ==
    /\ pc = "write_loop"
    /\ out_cum < Req.count
    /\ intrLeft > 0
    /\ intrLeft' = intrLeft - 1
    /\ UNCHANGED << pc, topic, cmd, printed, execLog, sysret, writeReqs,
                    out_cum, wret, fds, nwrites, sinkN, sinkHard >>

\* write_loop: write() fails with any other error; write_loop returns -1,
\* which print_help drops.
WriteHardError ==
    /\ pc = "write_loop"
    /\ out_cum < Req.count
    /\ sinkHard
    /\ wret' = Append(wret, -1)
    /\ pc' = AfterWritePc(-1)
    /\ UNCHANGED << topic, cmd, printed, execLog, sysret, writeReqs, out_cum,
                    fds, nwrites, sinkN, sinkHard, intrLeft >>

\* write_loop: everything is written; it returns out_cum, which print_help
\* drops.
WriteLoopReturn ==
    /\ pc = "write_loop"
    /\ out_cum >= Req.count
    /\ wret' = Append(wret, out_cum)
    /\ pc' = AfterWritePc(out_cum)
    /\ UNCHANGED << topic, cmd, printed, execLog, sysret, writeReqs, out_cum,
                    fds, nwrites, sinkN, sinkHard, intrLeft >>

Next ==
    \/ Format
    \/ Test
    \/ SystemReturn
    \/ CallWriteLoop
    \/ WriteSome
    \/ WriteInterrupted
    \/ WriteHardError
    \/ WriteLoopReturn

Spec == Init /\ [][Next]_vars

\* One thread runs print_help to its end: no step that can be taken is
\* postponed for ever.
FairSpec == Spec /\ WF_vars(Next)

Done == pc = "done"

(***************************************************************************)
(* Vocabulary of the properties                                            *)
(***************************************************************************)

\* "fish -c '__fish_print_help <topic>'", written out for a topic that fits.
ExpectedCommand(t) ==
    << "f", "i", "s", "h", " ", "-", "c", " ", "'", "_", "_", "f", "i", "s",
       "h", "_", "p", "r", "i", "n", "t", "_", "h", "e", "l", "p", " " >>
    \o t.head \o [ i \in 1..t.pad |-> t.fill ] \o << "'" >>

\* The bytes of the template around the topic.
TemplateBytes ==
    Len(ExpectedCommand([ head |-> << >>, fill |-> FillChar, pad |-> 0 ]))

\* The fully formatted command of topic t is at most n bytes long (stated
\* on the topic's length, so that no sum leaves the integers).
FullLenAtMost(t, n) == TopicLen(t) <= n - TemplateBytes

\* The fully formatted command of topic t is exactly n bytes long.
FullLenIs(t, n) == TopicLen(t) = n - TemplateBytes

\* The command fits cmd[CMD_LEN] together with its terminating NUL.
Fits(t) == FullLenAtMost(t, 1023)

\* "Could not show help message\n"
Diagnostic ==
    << "C", "o", "u", "l", "d", " ", "n", "o", "t", " ", "s", "h", "o", "w",
       " ", "h", "e", "l", "p", " ", "m", "e", "s", "s", "a", "g", "e", "\n" >>

IsPrefix(s, t) == Len(s) <= Len(t) /\ s = SubSeq(t, 1, Len(s))

Launched == Len(sysret) = 1 /\ sysret[1] \in WaitStatuses

\* The one request print_help may make of write_loop: descriptor 2, the
\* diagnostic, its full length.
DiagnosticRequested ==
    /\ Len(writeReqs) = 1
    /\ writeReqs[1].fd = 2
    /\ writeReqs[1].count = Len(Diagnostic)
    /\ SubSeq(writeReqs[1].buf, 1, writeReqs[1].count) = Diagnostic

(***************************************************************************)
(* Properties                                                              *)
(***************************************************************************)

\* C1: for a topic whose command fits the buffer, once system() has
\* launched the command, it has been called exactly once, with the template
\* holding the topic verbatim, and nothing is ever written to descriptor 2.
Thm_C1 ==
    (Fits(topic) /\ Launched) =>
        /\ execLog = << ExpectedCommand(topic) >>
        /\ stderr = << >>
        /\ writeReqs = << >>

Wit_C1 ==
    /\ Done /\ Fits(topic) /\ Launched
    /\ \E i \in 1..Len(topic.head) : topic.head[i] = "'"
    /\ topic.pad > 0

\* C2 as stated: a command of exactly CMD_LEN = 1024 bytes is run, like one
\* of 1023 bytes.
Orig_C2 ==
    (Done /\ FullLenIs(topic, 1024)) => Len(execLog) = 1

\* C2 as amended: the boundary is exclusive. A command of 1023 bytes is
\* the longest that is run; one of exactly 1024 bytes is skipped silently.
Thm_C2 ==
    Done =>
        /\ FullLenIs(topic, 1023) => execLog = << ExpectedCommand(topic) >>
        /\ FullLenIs(topic, 1024) =>
              execLog = << >> /\ stderr = << >> /\ writeReqs = << >>

Wit_C2 == Done /\ FullLenIs(topic, 1024) /\ printed = 1024

\* C3 as stated: when the command is longer than 1024 bytes, system() is
\* never called and nothing is written to descriptor 2.
Orig_C3 ==
    (Done /\ ~FullLenAtMost(topic, 1024)) =>
        execLog = << >> /\ stderr = << >> /\ writeReqs = << >>

\* C4 as stated: after a launch failure for a topic that fits, write_loop
\* was asked for exactly the diagnostic on descriptor 2 and descriptor 2
\* received exactly the diagnostic.
Orig_C4 ==
    (Done /\ Fits(topic) /\ sysret = << -1 >>) =>
        DiagnosticRequested /\ stderr = Diagnostic

\* C4 as amended: the request is exactly the diagnostic on descriptor 2;
\* descriptor 2 received exactly the diagnostic unless write_loop ended on
\* a hard error, and then it received a proper prefix of it.
Thm_C4 ==
    (Done /\ Fits(topic) /\ sysret = << -1 >>) =>
        /\ DiagnosticRequested
        /\ fds[1] = << >>
        /\ IF wret = << -1 >>
           THEN IsPrefix(stderr, Diagnostic) /\ stderr # Diagnostic
           ELSE stderr = Diagnostic /\ wret = << Len(Diagnostic) >>

Wit_C4 ==
    /\ Done /\ Fits(topic) /\ sysret = << -1 >>
    /\ wret = << Len(Diagnostic) >> /\ topic.pad > 0

\* C5: whatever wait status a launched command ends with, zero or not,
\* nothing is written to descriptor 2; write_loop is called only after
\* system() returned -1.
Thm_C5 ==
    /\ Launched => stderr = << >> /\ writeReqs = << >>
    /\ writeReqs # << >> => sysret = << -1 >>

Wit_C5 == Done /\ Launched /\ sysret # << 0 >> /\ Len(execLog) = 1

\* C6: on the launch-failure path, with a sink that takes fewer bytes per
\* write() than the diagnostic has and never fails hard, print_help comes
\* to its end with descriptor 2 holding the diagnostic exactly once.
Thm_C6 ==
    (pc = "write_loop" /\ ~sinkHard /\ sinkN < Len(Diagnostic))
        ~> (Done /\ stderr = Diagnostic /\ wret = << Len(Diagnostic) >>)

Wit_C6 ==
    /\ Done /\ ~sinkHard /\ sinkN < Len(Diagnostic)
    /\ nwrites > 1 /\ stderr = Diagnostic

\* C7: system() is called at most once and write_loop at most once.
Thm_C7 == Len(execLog) <= 1 /\ Len(writeReqs) <= 1

Wit_C7 == Done /\ Len(execLog) = 1 /\ Len(writeReqs) = 1

\* C8: when write_loop ends on a hard error print_help is at its end, with
\* one call of system() and one of write_loop behind it; at its end
\* print_help does nothing more, and before its end it can always go on.
Thm_C8 ==
    /\ wret # << >> => Done
    /\ wret = << -1 >> => Len(execLog) = 1 /\ Len(writeReqs) = 1
    /\ Done => ~ENABLED Next
    /\ ~Done => ENABLED Next

Wit_C8 == Done /\ wret = << -1 >> /\ stderr # << >>

\* C9: a byte reaches descriptor 2, and write_loop is called, only after
\* system() has been called in this call and has returned -1.
Thm_C9 ==
    /\ (stderr # << >> \/ writeReqs # << >>) =>
          Len(execLog) = 1 /\ sysret = << -1 >>
    /\ pc \in { "start", "test", "system" } =>
          stderr = << >> /\ writeReqs = << >>

Wit_C9 == pc = "write_loop" /\ stderr # << >> /\ out_cum < Len(Diagnostic)

\* C10 as stated: every command handed to system() is the complete
\* formatted command of the topic, and when snprintf reports a negative
\* count system() is not called.
Orig_C10 ==
    /\ \A i \in 1..Len(execLog) :
          Fits(topic) /\ execLog[i] = ExpectedCommand(topic)
    /\ printed < 0 => execLog = << >>

=============================================================================
